---- MODULE Spec2Model ----
(***************************************************************************)
(* Model of the Instagram-archive to Bluesky migration pipeline:           *)
(* src/src/engines.py (MigrationQueue, InstagramArchiveParsingEngine,      *)
(* BlueSkyPostingEngine) and src/src/models.py (the job record).           *)
(*                                                                         *)
(* One Python process is alive at a time (run.py runs one command per      *)
(* process); it owns one engine and that engine's in-memory                *)
(* MigrationQueue.queue.  The job store directory (one <job_index>.json    *)
(* per job) outlives the processes, and so does the remote platform.       *)
(***************************************************************************)
EXTENDS Integers, Sequences, FiniteSets, TLC

(* ------------------------------ bounds -------------------------------- *)
\* longest media list handed to _partition_media
MaxMedia == 4
\* largest per-kind limit (max_images_per_post, max_videos_per_post) tried
MaxLimit == 2
\* jobs already in the queue when queue_post is tried on its own
MaxPrior == 2
\* most job records the store is let grow to
MaxJobs == 2
\* longest in-memory queue repeated load() calls are let build
MaxQueue == 4
\* most operations (imports, loads, post and rollback calls) in one history
MaxOps == 3
\* most posts in an archive handed to the import on its own
MaxPosts == 2
\* latest day a post or a date bound may carry
MaxDay == 3
\* longest post title
MaxTitle == 6
\* largest post_text_limit
MaxTextLimit == 8
\* longest post_text_truncate_suffix
MaxSuffix == 3

(* ---------------------------- data model ------------------------------ *)
\* Python's None, for the Optional[int] / Optional[str] fields
None == -1

\* BlueSkyMigrationJobState
READY == "ready"
PROCESSED == "processed"
FAILED == "failed"
JobStates == {READY, PROCESSED, FAILED}

\* MigrationMediaStrategy
ORDERED == "ordered"
VIDEOLAST == "videolast"
Strategies == {ORDERED, VIDEOLAST}

\* InstagramArchiveMedia: id stands for the uri's path, mp4 for its suffix
Media(id, mp4) == [id |-> id, mp4 |-> mp4, creation_timestamp |-> None]

\* entry.uri.endswith(".mp4")
IsMp4(entry) == entry.mp4

\* "video" if entry.uri.endswith(".mp4") else "image"
KindOf(entry) == IF IsMp4(entry) THEN "video" ELSE "image"

\* the part of MigrationConfig the import reads (no date window is configured here)
Configs ==
    [max_images_per_post : 1..MaxLimit,
     max_videos_per_post : 1..MaxLimit,
     media_strategy : Strategies,
     min_date : {None},
     max_date : {None}]

\* every media list of length n: ids are the positions, kinds are free
MediaListsOfLen(n) == {[k \in 1..n |-> Media(k, f[k])] : f \in [1..n -> BOOLEAN]}

MediaLists == UNION {MediaListsOfLen(n) : n \in 0..MaxMedia}

(* ------------------------- _partition_media --------------------------- *)
IsVideoEntry(entry) == IsMp4(entry)

IsImageEntry(entry) == ~IsMp4(entry)

\* strategy == "videolast": media = images + videos
Reorder(media, strategy) ==
    IF strategy = VIDEOLAST
    THEN SelectSeq(media, IsImageEntry) \o SelectSeq(media, IsVideoEntry)
    ELSE media

\* mutant: the limit test lets one item too many in
RoomLeftOffByOne(current_partition, limit) == Len(current_partition) <= limit

\* mutant: a batch is closed one item before it is full
RoomLeftClosesEarly(current_partition, limit) == Len(current_partition) + 1 < limit

\* len(current_partition) < self.config.max_*_per_post
RoomLeft(current_partition, limit) == Len(current_partition) < limit

\* mutant: the entry that closes a batch is lost
FreshPartitionDropsEntry(entry) == <<>>

\* current_partition = [entry]
FreshPartition(entry) == <<entry>>

\* the for loop of _partition_media, from entry k on
RECURSIVE PartitionLoop(_, _, _, _, _, _)
PartitionLoop(media, k, partitions, current_partition, current_partition_type, cfg) ==
    IF k > Len(media)
    THEN [partitions |-> partitions, current_partition |-> current_partition]
    ELSE
        LET entry == media[k]
            ptype == IF current_partition_type = "none"
                     THEN KindOf(entry)
                     ELSE current_partition_type
        IN  IF ptype = "video" /\ IsMp4(entry)
            THEN IF RoomLeft(current_partition, cfg.max_videos_per_post)
                 THEN PartitionLoop(media, k + 1, partitions,
                                    Append(current_partition, entry), ptype, cfg)
                 ELSE PartitionLoop(media, k + 1, Append(partitions, current_partition),
                                    FreshPartition(entry), ptype, cfg)
            ELSE IF ptype = "image" /\ ~IsMp4(entry)
            THEN IF RoomLeft(current_partition, cfg.max_images_per_post)
                 THEN PartitionLoop(media, k + 1, partitions,
                                    Append(current_partition, entry), ptype, cfg)
                 ELSE PartitionLoop(media, k + 1, Append(partitions, current_partition),
                                    FreshPartition(entry), ptype, cfg)
            ELSE PartitionLoop(media, k + 1, Append(partitions, current_partition),
                               FreshPartition(entry), KindOf(entry), cfg)

\* _partition_media(media, strategy), reading the limits from self.config
_partition_media(media, strategy, cfg) ==
    LET r == PartitionLoop(Reorder(media, strategy), 1, <<>>, <<>>, "none", cfg)
    IN  IF r.current_partition # <<>>
        THEN Append(r.partitions, r.current_partition)
        ELSE r.partitions

(* ------------------------------ the job ------------------------------- *)
\* BlueSkyMigrationJob(job_index, archive_index, embed), the other fields at their
\* defaults (the text fields are not modelled here)
NewJob(job_index, archive_index, partition) ==
    [job_index |-> job_index,
     archive_index |-> archive_index,
     embed |-> partition,
     state |-> READY,
     root_index |-> None,
     parent_index |-> None,
     cid |-> None,
     uri |-> None]

(* ----------------------------- queue_post ----------------------------- *)
\* mutant: every reply points at the first job of the thread (a star)
ReplyTargetStar(thread_start, reply_to) == thread_start

\* migration_job.parent_index = reply_to
ReplyTarget(thread_start, reply_to) == reply_to

\* the for loop of queue_post from partition `index` (0-based) on; each job is
\* appended (and so given job_index = len(queue)) before the next is built
RECURSIVE QueuePostLoop(_, _, _, _, _, _)
QueuePostLoop(q, media_partitions, index, archive_index, thread_start, reply_to) ==
    IF index >= Len(media_partitions)
    THEN q
    ELSE
        LET fresh == NewJob(Len(q), archive_index, media_partitions[index + 1])
            migration_job ==
                IF index = 0
                THEN fresh
                ELSE [fresh EXCEPT !.root_index = thread_start,
                                   !.parent_index = ReplyTarget(thread_start, reply_to)]
        IN  QueuePostLoop(Append(q, migration_job), media_partitions, index + 1,
                          archive_index,
                          IF index = 0 THEN migration_job.job_index ELSE thread_start,
                          migration_job.job_index)

\* assert len(media_partitions) > 0, "Media partitioning failed"
QueuePostRaises(post, cfg) ==
    Len(_partition_media(post.media, cfg.media_strategy, cfg)) = 0

\* queue_post(post, archive_index): the in-memory queue afterwards
queue_post(q, post, archive_index, cfg) ==
    IF QueuePostRaises(post, cfg)
    THEN q
    ELSE QueuePostLoop(q, _partition_media(post.media, cfg.media_strategy, cfg),
                       0, archive_index, None, None)

(* --------------------------- MigrationQueue --------------------------- *)
\* the job store directory: a function from the job indices that have a
\* <job_index>.json file to the record in that file
EmptyStore == [k \in {} |-> NewJob(0, 0, <<>>)]

\* save(job): <job.job_index>.json is written, replacing what was there
save(store, job) ==
    [k \in (DOMAIN store) \cup {job.job_index} |->
        IF k = job.job_index THEN job ELSE store[k]]

\* append(job) for each of q[from + 1 ..]: the saves it makes
RECURSIVE SaveFrom(_, _, _)
SaveFrom(store, q, from) ==
    IF from >= Len(q) THEN store ELSE SaveFrom(save(store, q[from + 1]), q, from + 1)

\* one step of a stable sort by job_index: job goes after every entry whose key
\* is not larger
RECURSIVE InsertByJobIndex(_, _)
InsertByJobIndex(sorted, job) ==
    IF sorted = <<>>
    THEN <<job>>
    ELSE IF sorted[Len(sorted)].job_index <= job.job_index
    THEN Append(sorted, job)
    ELSE Append(InsertByJobIndex(SubSeq(sorted, 1, Len(sorted) - 1), job),
                sorted[Len(sorted)])

\* sorted(self.queue, key=lambda x: x.job_index)
RECURSIVE SortedByJobIndex(_)
SortedByJobIndex(q) ==
    IF q = <<>>
    THEN <<>>
    ELSE InsertByJobIndex(SortedByJobIndex(SubSeq(q, 1, Len(q) - 1)), q[Len(q)])

\* the orders in which glob may list the files of the store
GlobOrders(store) ==
    {o \in [1..Cardinality(DOMAIN store) -> DOMAIN store] :
        \A a, b \in DOMAIN o : a # b => o[a] # o[b]}

\* load(): every record is appended to self.queue, then the queue is sorted
load(q, store, order) ==
    SortedByJobIndex(q \o [k \in 1..Len(order) |-> store[order[k]]])

(* ----------------------- extract_posts_to_queue ----------------------- *)
\* InstagramArchivePost
Post(creation_timestamp, media) ==
    [creation_timestamp |-> creation_timestamp, media |-> media]

\* the timestamp after the first loop's repair: the post's own, else the first
\* media item's when there is one and it is truthy
ResolvedTimestamp(post) ==
    IF post.creation_timestamp # None
    THEN post.creation_timestamp
    ELSE IF post.media # <<>>
            /\ post.media[1].creation_timestamp # None
            /\ post.media[1].creation_timestamp # 0
    THEN post.media[1].creation_timestamp
    ELSE None

Resolved(archive) ==
    [k \in DOMAIN archive |->
        [archive[k] EXCEPT !.creation_timestamp = ResolvedTimestamp(archive[k])]]

\* datetime.fromtimestamp(post.creation_timestamp) with None raises TypeError
NoDateRaises(archive) ==
    \E k \in DOMAIN archive : ResolvedTimestamp(archive[k]) = None

RECURSIVE InsertByTimestamp(_, _)
InsertByTimestamp(sorted, post) ==
    IF sorted = <<>>
    THEN <<post>>
    ELSE IF sorted[Len(sorted)].creation_timestamp <= post.creation_timestamp
    THEN Append(sorted, post)
    ELSE Append(InsertByTimestamp(SubSeq(sorted, 1, Len(sorted) - 1), post),
                sorted[Len(sorted)])

\* sorted(archive.posts, key=lambda x: x.creation_timestamp)
RECURSIVE SortedByTimestamp(_)
SortedByTimestamp(posts) ==
    IF posts = <<>>
    THEN <<>>
    ELSE InsertByTimestamp(SortedByTimestamp(SubSeq(posts, 1, Len(posts) - 1)),
                           posts[Len(posts)])

\* the window tests compare the int timestamp with a datetime, which raises
\* TypeError as soon as a bound is configured
DateWindowRaises(post, cfg) == cfg.min_date # None \/ cfg.max_date # None

\* the second loop, from sorted position `index` (0-based) on
RECURSIVE ExtractLoop(_, _, _, _)
ExtractLoop(q, posts, index, cfg) ==
    IF index >= Len(posts)
    THEN [queue |-> q, raised |-> FALSE]
    ELSE
        LET post == posts[index + 1]
        IN  IF DateWindowRaises(post, cfg)
            THEN [queue |-> q, raised |-> TRUE]
            ELSE IF post.media = <<>>
            THEN ExtractLoop(q, posts, index + 1, cfg)
            ELSE IF QueuePostRaises(post, cfg)
            THEN [queue |-> q, raised |-> TRUE]
            ELSE ExtractLoop(queue_post(q, post, index, cfg), posts, index + 1, cfg)

\* extract_posts_to_queue(): the in-memory queue afterwards and whether it raised
extract_posts_to_queue(q, archive, cfg) ==
    IF NoDateRaises(archive)
    THEN [queue |-> q, raised |-> TRUE]
    ELSE ExtractLoop(q, SortedByTimestamp(Resolved(archive)), 0, cfg)

(* ------------------------------- state -------------------------------- *)
VARIABLES
    proc,          \* the live process: "none", "parser" (import) or "poster"
    config,        \* the parsing engine's MigrationConfig
    simulate,      \* BlueSkyPostingEngine.simulate
    queue,         \* the live engine's MigrationQueue.queue
    disk,          \* the job store directory
    pc,            \* where the live engine is: "none", "idle", "post", "created",
                   \* "rollback", "deleted"
    i,             \* position (1-based) of the running loop in queue, else 0
    pick,          \* post(index): the archive index asked for, else None
    response,      \* the create-post response not yet stored in the job
    calls,         \* kinds of remote call issued by the running operation
    creates,       \* per job index: successful create-post calls made by
                   \* non-simulate post() runs, over a queue loaded once, since
                   \* the last rollback or import
    prevComplete,  \* a non-simulate post() has run to completion on this store
                   \* and no rollback or import has run since
    rerun,         \* the post() running (or run last) is a non-simulate post()
                   \* begun when prevComplete held
    lastCreate,    \* the last create-post call issued by the running post()
    rbSnap,        \* the queue as it was when rollback() began
    ops,           \* operations begun so far
    lastOp,        \* "rollback" once rollback() has returned, until the next call
    attempt,       \* the jobs the driving loop of the running post() has handed
                   \* to _post_to_bluesky: how many (counted up to two), and
                   \* whether time.sleep ran just before the last one
    b_pc,          \* the partitioner / queue_post harness: "input",
                   \* "partitioned", "queued"
    b_media,       \* its media list
    b_config,      \* its configuration
    b_prior,       \* how many jobs its queue held beforehand
    b_partitions,  \* what _partition_media returned
    b_queue,       \* its queue
    s_pc,          \* a MigrationQueue on its own: "open" (constructed on an
                   \* empty directory), "reopened" (a new object on the same
                   \* directory), "loaded", "reloaded" (load() on a queue that
                   \* held jobs already or had been loaded before)
    s_queue,       \* its self.queue
    s_disk,        \* its directory
    s_appended,    \* the jobs appended so far, in order
    x_pc,          \* extract_posts_to_queue on its own: "input", "sorted" (the
                   \* first loop and the sort are done), "done", "raised"
    x_archive,     \* archive.posts as read
    x_config,      \* its configuration
    x_posts,       \* archive.posts after the first loop and the sort
    x_queue,       \* its queue
    t_pc,          \* the text of one job on its own: "input", "built" (the
                   \* "[i/n] " prefix is on), "stored" (truncated if need be)
    t_title,       \* post.title
    t_index,       \* the partition's index (0-based)
    t_parts,       \* len(media_partitions)
    t_limit,       \* config.post_text_limit
    t_suffix,      \* config.post_text_truncate_suffix
    t_full,        \* _post_text before the truncation
    t_text         \* _post_text as stored in the job

mainVars ==
    <<proc, config, simulate, queue, disk, pc, i, pick, response,
      calls, creates, prevComplete, rerun, lastCreate, rbSnap, ops, lastOp, attempt>>

buildVars == <<b_pc, b_media, b_config, b_prior, b_partitions, b_queue>>

storeVars == <<s_pc, s_queue, s_disk, s_appended>>

\* what the engines' steps leave alone
importVars == <<x_pc, x_archive, x_config, x_posts, x_queue>>

textVars == <<t_pc, t_title, t_index, t_parts, t_limit, t_suffix, t_full, t_text>>

unitVars == <<buildVars, storeVars, importVars, textVars>>

vars == <<mainVars, unitVars>>

JobIndices == 0..(MaxJobs - 1)

\* the configuration shown while no parsing engine is alive
IdleConfig == CHOOSE c \in Configs : TRUE

NoCreate ==
    [job_index |-> None, root_index |-> None, parent_index |-> None, reply |-> FALSE,
     root_cid |-> None, root_uri |-> None, parent_cid |-> None, parent_uri |-> None]

NoCreates == [k \in JobIndices |-> 0]

NoAttempt == [n |-> 0, slept |-> FALSE]

MainInit ==
    /\ proc = "none"
    /\ config = IdleConfig
    /\ simulate = FALSE
    /\ queue = <<>>
    /\ disk = EmptyStore
    /\ pc = "none"
    /\ i = 0
    /\ pick = None
    /\ response = None
    /\ calls = {}
    /\ creates = NoCreates
    /\ prevComplete = FALSE
    /\ rerun = FALSE
    /\ lastCreate = NoCreate
    /\ rbSnap = <<>>
    /\ ops = 0
    /\ lastOp = "none"
    /\ attempt = NoAttempt

\* a queue that earlier queue_post calls filled with n one-image posts
RECURSIVE PriorQueue(_, _)
PriorQueue(n, cfg) ==
    IF n = 0
    THEN <<>>
    ELSE queue_post(PriorQueue(n - 1, cfg), Post(1, <<Media(1, FALSE)>>), n - 1, cfg)

BuildIdle ==
    /\ b_pc = "off"
    /\ b_media = <<>>
    /\ b_config = IdleConfig
    /\ b_prior = 0
    /\ b_partitions = <<>>
    /\ b_queue = <<>>

StoreIdle ==
    /\ s_pc = "off"
    /\ s_queue = <<>>
    /\ s_disk = EmptyStore
    /\ s_appended = <<>>

ImportIdle ==
    /\ x_pc = "off"
    /\ x_archive = <<>>
    /\ x_config = IdleConfig
    /\ x_posts = <<>>
    /\ x_queue = <<>>

TextIdle ==
    /\ t_pc = "off"
    /\ t_title = <<>>
    /\ t_index = 0
    /\ t_parts = 1
    /\ t_limit = 0
    /\ t_suffix = <<>>
    /\ t_full = <<>>
    /\ t_text = <<>>

Init == MainInit /\ BuildIdle /\ StoreIdle /\ ImportIdle /\ TextIdle

(* ------------------------ processes and import ------------------------ *)
\* the archives an import is run on: at most two dated posts, each with no
\* media, one image, image-video or image-video-image
ArchivePosts ==
    {Post(1, m) :
        m \in {<<>>,
               <<Media(1, FALSE)>>,
               <<Media(1, FALSE), Media(2, TRUE)>>,
               <<Media(1, FALSE), Media(2, TRUE), Media(3, FALSE)>>}}

Archives ==
    {<<>>} \cup {<<p>> : p \in ArchivePosts} \cup {<<p, q>> : p, q \in ArchivePosts}

\* the archive indices post(index) is asked for
ArchiveIndices == UNION {{k - 1 : k \in DOMAIN a} : a \in Archives}

\* the configurations the imports run under: either strategy, the widest limits
ImportConfigs ==
    {c \in Configs :
        c.max_images_per_post = MaxLimit /\ c.max_videos_per_post = MaxLimit}

\* what dies with the process
ProcessGone ==
    /\ proc' = "none"
    /\ config' = IdleConfig
    /\ simulate' = FALSE
    /\ queue' = <<>>
    /\ pc' = "none"
    /\ i' = 0
    /\ pick' = None
    /\ response' = None
    /\ calls' = {}
    /\ rerun' = FALSE
    /\ lastCreate' = NoCreate
    /\ rbSnap' = <<>>
    /\ lastOp' = "none"
    /\ attempt' = NoAttempt

\* run.py import: InstagramArchiveParsingEngine.__init__ builds an empty
\* MigrationQueue on queue_dir and does not load it
ImportNew(cfg) ==
    /\ proc = "none"
    /\ proc' = "parser"
    /\ config' = cfg
    /\ queue' = <<>>
    /\ pc' = "idle"
    /\ UNCHANGED <<simulate, disk, i, pick, response, calls, creates, prevComplete,
                   rerun, lastCreate, rbSnap, ops, lastOp, attempt, unitVars>>

\* extract_posts_to_queue() on an archive, every append saving its job
Import(archive) ==
    /\ proc = "parser"
    /\ pc = "idle"
    /\ ops < MaxOps
    /\ ops' = ops + 1
    /\ LET r == extract_posts_to_queue(queue, archive, config)
       IN  /\ Len(r.queue) <= MaxJobs
           /\ queue' = r.queue
           /\ disk' = SaveFrom(disk, r.queue, Len(queue))
    /\ creates' = NoCreates
    /\ prevComplete' = FALSE
    /\ UNCHANGED <<proc, config, simulate, pc, i, pick, response, calls, rerun,
                   lastCreate, rbSnap, lastOp, attempt, unitVars>>

\* the same, the process being terminated when only `kept` jobs are in the queue
ImportKilled(archive, kept) ==
    /\ proc = "parser"
    /\ pc = "idle"
    /\ ops < MaxOps
    /\ ops' = ops + 1
    /\ kept >= Len(queue)
    /\ LET r == extract_posts_to_queue(queue, archive, config)
       IN  /\ Len(r.queue) <= MaxJobs
           /\ kept < Len(r.queue)
           /\ disk' = SaveFrom(disk, SubSeq(r.queue, 1, kept), Len(queue))
    /\ creates' = NoCreates
    /\ prevComplete' = FALSE
    /\ ProcessGone
    /\ UNCHANGED unitVars

\* run.py migrate / simulate: BlueSkyPostingEngine.__init__ builds a
\* MigrationQueue and loads it
EngineNew(sim, order) ==
    /\ proc = "none"
    /\ proc' = "poster"
    /\ simulate' = sim
    /\ queue' = load(<<>>, disk, order)
    /\ pc' = "idle"
    /\ UNCHANGED <<config, disk, i, pick, response, calls, creates, prevComplete,
                   rerun, lastCreate, rbSnap, ops, lastOp, attempt, unitVars>>

\* MigrationQueue.load() called again on the engine's queue
Load(order) ==
    /\ proc = "poster"
    /\ pc = "idle"
    /\ ops < MaxOps
    /\ ops' = ops + 1
    /\ Len(queue) + Cardinality(DOMAIN disk) <= MaxQueue
    /\ queue' = load(queue, disk, order)
    /\ lastOp' = "none"
    /\ UNCHANGED <<proc, config, simulate, disk, pc, i, pick, response, calls,
                   creates, prevComplete, rerun, lastCreate, rbSnap, attempt, unitVars>>

\* the process ends or is terminated, wherever it is
Exit ==
    /\ proc # "none"
    /\ ProcessGone
    /\ UNCHANGED <<disk, creates, prevComplete, ops, unitVars>>

(* ----------------------- BlueSkyPostingEngine.post --------------------- *)
\* post() has a job of the queue in hand
AtJob == pc = "post" /\ i >= 1 /\ i <= Len(queue)

\* the job is handed to _post_to_bluesky: in the driving loop when it is READY
\* or FAILED, in single-index mode when its archive_index is the one asked for
Attempted ==
    /\ AtJob
    /\ IF pick = None
       THEN queue[i].state \in {READY, FAILED}
       ELSE queue[i].archive_index = pick

\* _post_to_bluesky gets past its two early returns
RealAttempt ==
    /\ Attempted
    /\ ~simulate
    /\ queue[i].state # PROCESSED

\* root_index is not None and parent_index is not None
IsReply(job) == job.root_index # None /\ job.parent_index # None

\* self.queue.queue[index] past the end of the list raises IndexError
LookupRaises(q, index) == index >= Len(q)

\* mutant: a reference is built from whatever the job holds
StrongRefNeverRaises(job) == FALSE

\* models.create_strong_ref(job) builds StrongRef.Main(cid=job.cid, uri=job.uri),
\* whose two fields are required strings: None is a validation error
StrongRefRaises(job) == job.cid = None \/ job.uri = None

\* building the reply reference raises
ReplyRaises(q, job) ==
    /\ IsReply(job)
    /\ \/ LookupRaises(q, job.root_index)
       \/ StrongRefRaises(q[job.root_index + 1])
       \/ LookupRaises(q, job.parent_index)
       \/ StrongRefRaises(q[job.parent_index + 1])

\* the create-post call for a job: what it refers to
CreateCall(q, job) ==
    [job_index |-> job.job_index,
     root_index |-> job.root_index,
     parent_index |-> job.parent_index,
     reply |-> IsReply(job),
     root_cid |-> IF IsReply(job) THEN q[job.root_index + 1].cid ELSE None,
     root_uri |-> IF IsReply(job) THEN q[job.root_index + 1].uri ELSE None,
     parent_cid |-> IF IsReply(job) THEN q[job.parent_index + 1].cid ELSE None,
     parent_uri |-> IF IsReply(job) THEN q[job.parent_index + 1].uri ELSE None]

\* the identifiers the jobs in memory and in the store hold
HeldIds(q, store) ==
    {q[k].cid : k \in DOMAIN q} \cup {q[k].uri : k \in DOMAIN q}
        \cup {store[k].cid : k \in DOMAIN store} \cup {store[k].uri : k \in DOMAIN store}

\* response.cid / response.uri of a successful create: an identifier no job
\* holds (the least such number stands for it)
FreshId(q, store) ==
    CHOOSE n \in 1..(Cardinality(HeldIds(q, store)) + 1) :
        /\ n \notin HeldIds(q, store)
        /\ \A m \in 1..(n - 1) : m \in HeldIds(q, store)

\* mutant: the identifiers are stored but the state is left as it was
MarkProcessedKeepsState(job, resp) == [job EXCEPT !.cid = resp, !.uri = resp]

\* migration_job.cid / .uri = response.cid / .uri; .state = PROCESSED
MarkProcessed(job, resp) ==
    [job EXCEPT !.cid = resp, !.uri = resp, !.state = PROCESSED]

\* one more successful create-post for a job index (counted up to two)
Counted(c, job_index) ==
    [c EXCEPT ![job_index] = IF @ < 2 THEN @ + 1 ELSE @]

\* the driving loop hands the job at position i to _post_to_bluesky, after
\* time.sleep when index > 0 (index is the 0-based position in the queue);
\* single-index mode has no delay
Delayed(a) ==
    IF pick = None
    THEN [n |-> IF a.n < 2 THEN a.n + 1 ELSE a.n, slept |-> i - 1 > 0]
    ELSE a

\* no job index occurs twice in the queue
LoadedOnce(q) == \A a, b \in DOMAIN q : a # b => q[a].job_index # q[b].job_index

\* post(index): the login, then the loop chosen by isinstance(index, int)
PostBegin(index) ==
    /\ proc = "poster"
    /\ pc = "idle"
    /\ ops < MaxOps
    /\ ops' = ops + 1
    /\ pc' = "post"
    /\ i' = 1
    /\ pick' = index
    /\ calls' = IF simulate THEN {} ELSE {"login"}
    /\ rerun' = (index = None /\ ~simulate /\ prevComplete)
    /\ lastCreate' = NoCreate
    /\ rbSnap' = <<>>
    /\ lastOp' = "none"
    /\ attempt' = NoAttempt
    /\ UNCHANGED <<proc, config, simulate, queue, disk, response, creates,
                   prevComplete, unitVars>>

\* the job is passed over: PROCESSED in the driving loop, another archive index
\* in single-index mode
PostSkip ==
    /\ AtJob
    /\ ~Attempted
    /\ i' = i + 1
    /\ UNCHANGED <<proc, config, simulate, queue, disk, pc, pick, response, calls,
                   creates, prevComplete, rerun, lastCreate, rbSnap, ops, lastOp,
                   attempt, unitVars>>

\* _post_to_bluesky returns at once: simulate, or the job is PROCESSED
PostReturn ==
    /\ Attempted
    /\ ~RealAttempt
    /\ i' = i + 1
    /\ attempt' = Delayed(attempt)
    /\ UNCHANGED <<proc, config, simulate, queue, disk, pc, pick, response, calls,
                   creates, prevComplete, rerun, lastCreate, rbSnap, ops, lastOp,
                   unitVars>>

\* mutant: the job whose attempt raised is marked FAILED in memory
AbortedJobMarkedFailed(job) == [job EXCEPT !.state = FAILED]

\* the job whose attempt raised: the assignments after the create-post call are
\* not reached, nothing catches the exception
AbortedJob(job) == job

\* the exception leaves post(): the loop is over, the engine is still there
PostAborted ==
    /\ pc' = "idle"
    /\ i' = 0
    /\ pick' = None
    /\ queue' = [queue EXCEPT ![i] = AbortedJob(@)]
    /\ UNCHANGED <<proc, config, simulate, disk, response, creates,
                   prevComplete, rerun, rbSnap, ops, lastOp, unitVars>>

\* reading or uploading one of the job's media raises
PostUploadRaises ==
    /\ RealAttempt
    /\ queue[i].embed # <<>>
    /\ calls' = calls \cup {"upload"}
    /\ lastCreate' = lastCreate
    /\ attempt' = Delayed(attempt)
    /\ PostAborted

\* the job has no media (ValueError), or its reply reference cannot be built
PostPrepareRaises ==
    /\ RealAttempt
    /\ IF queue[i].embed = <<>>
       THEN calls' = calls
       ELSE /\ ReplyRaises(queue, queue[i])
            /\ calls' = calls \cup {"upload"}
    /\ lastCreate' = lastCreate
    /\ attempt' = Delayed(attempt)
    /\ PostAborted

\* the create-post call is made
CreateIssued ==
    /\ RealAttempt
    /\ queue[i].embed # <<>>
    /\ ~ReplyRaises(queue, queue[i])
    /\ calls' = calls \cup {"upload", "create"}
    /\ lastCreate' = CreateCall(queue, queue[i])
    /\ attempt' = Delayed(attempt)

\* ... and raises
PostCreateRaises ==
    /\ CreateIssued
    /\ PostAborted

\* ... and succeeds: the post now exists remotely, the job does not know yet
PostCreate ==
    /\ CreateIssued
    /\ response' = FreshId(queue, disk)
    /\ creates' = IF pick = None /\ LoadedOnce(queue)
                  THEN Counted(creates, queue[i].job_index)
                  ELSE creates
    /\ pc' = "created"
    /\ UNCHANGED <<proc, config, simulate, queue, disk, i, pick, prevComplete, rerun,
                   rbSnap, ops, lastOp, unitVars>>

\* the response is stored in the job and the job is saved
PostSave ==
    /\ pc = "created"
    /\ queue' = [queue EXCEPT ![i] = MarkProcessed(@, response)]
    /\ disk' = save(disk, MarkProcessed(queue[i], response))
    /\ response' = None
    /\ i' = i + 1
    /\ pc' = "post"
    /\ UNCHANGED <<proc, config, simulate, pick, calls, creates, prevComplete, rerun,
                   lastCreate, rbSnap, ops, lastOp, attempt, unitVars>>

\* the loop is through: post() returns
PostEnd ==
    /\ pc = "post"
    /\ i > Len(queue)
    /\ pc' = "idle"
    /\ i' = 0
    /\ pick' = None
    /\ prevComplete' = IF pick = None /\ ~simulate THEN TRUE ELSE prevComplete
    /\ UNCHANGED <<proc, config, simulate, queue, disk, response, calls, creates,
                   rerun, lastCreate, rbSnap, ops, lastOp, attempt, unitVars>>

(* --------------------- BlueSkyPostingEngine.rollback ------------------- *)
\* post.state = BlueSkyMigrationJobState.READY
Rewound(job) == [job EXCEPT !.state = READY]

\* rollback(): the login, then the loop
RollbackBegin ==
    /\ proc = "poster"
    /\ pc = "idle"
    /\ ops < MaxOps
    /\ ops' = ops + 1
    /\ pc' = "rollback"
    /\ i' = 1
    /\ calls' = IF simulate THEN {} ELSE {"login"}
    /\ rbSnap' = queue
    /\ creates' = NoCreates
    /\ prevComplete' = FALSE
    /\ rerun' = FALSE
    /\ lastCreate' = NoCreate
    /\ lastOp' = "none"
    /\ attempt' = NoAttempt
    /\ UNCHANGED <<proc, config, simulate, queue, disk, pick, response, unitVars>>

RollbackAtJob == pc = "rollback" /\ i >= 1 /\ i <= Len(queue)

\* a READY job is passed over
RollbackSkip ==
    /\ RollbackAtJob
    /\ queue[i].state = READY
    /\ i' = i + 1
    /\ UNCHANGED <<proc, config, simulate, queue, disk, pc, pick, response, calls,
                   creates, prevComplete, rerun, lastCreate, rbSnap, ops, lastOp,
                   attempt, unitVars>>

\* self.client.delete_post(post.uri) raises
RollbackDeleteRaises ==
    /\ RollbackAtJob
    /\ queue[i].state \in {PROCESSED, FAILED}
    /\ calls' = calls \cup {"delete"}
    /\ pc' = "idle"
    /\ i' = 0
    /\ UNCHANGED <<proc, config, simulate, queue, disk, pick, response, creates,
                   prevComplete, rerun, lastCreate, rbSnap, ops, lastOp, attempt,
                   unitVars>>

\* self.client.delete_post(post.uri) succeeds
RollbackDelete ==
    /\ RollbackAtJob
    /\ queue[i].state \in {PROCESSED, FAILED}
    /\ queue[i].uri # None
    /\ calls' = calls \cup {"delete"}
    /\ pc' = "deleted"
    /\ UNCHANGED <<proc, config, simulate, queue, disk, i, pick, response, creates,
                   prevComplete, rerun, lastCreate, rbSnap, ops, lastOp, attempt,
                   unitVars>>

\* the job is set back to READY and saved
RollbackSave ==
    /\ pc = "deleted"
    /\ queue' = [queue EXCEPT ![i] = Rewound(@)]
    /\ disk' = save(disk, Rewound(queue[i]))
    /\ i' = i + 1
    /\ pc' = "rollback"
    /\ UNCHANGED <<proc, config, simulate, pick, response, calls, creates,
                   prevComplete, rerun, lastCreate, rbSnap, ops, lastOp, attempt,
                   unitVars>>

\* the loop is through: rollback() returns
RollbackEnd ==
    /\ pc = "rollback"
    /\ i > Len(queue)
    /\ pc' = "idle"
    /\ i' = 0
    /\ lastOp' = "rollback"
    /\ UNCHANGED <<proc, config, simulate, queue, disk, pick, response, calls,
                   creates, prevComplete, rerun, lastCreate, rbSnap, ops, attempt,
                   unitVars>>

(* --------------------------- the whole program ------------------------- *)
Next ==
    \/ \E cfg \in ImportConfigs : ImportNew(cfg)
    \/ \E archive \in Archives : Import(archive)
    \/ \E archive \in Archives, kept \in 0..MaxJobs : ImportKilled(archive, kept)
    \/ \E sim \in BOOLEAN, order \in GlobOrders(disk) : EngineNew(sim, order)
    \/ \E order \in GlobOrders(disk) : Load(order)
    \/ \E index \in {None} \cup ArchiveIndices : PostBegin(index)
    \/ PostSkip
    \/ PostReturn
    \/ PostUploadRaises
    \/ PostPrepareRaises
    \/ PostCreateRaises
    \/ PostCreate
    \/ PostSave
    \/ PostEnd
    \/ RollbackBegin
    \/ RollbackSkip
    \/ RollbackDeleteRaises
    \/ RollbackDelete
    \/ RollbackSave
    \/ RollbackEnd
    \/ Exit

Spec == Init /\ [][Next]_vars

(* ------------------------ claims on the program ------------------------ *)
\* every job in memory and every record of the store
AllJobs == {queue[k] : k \in DOMAIN queue} \cup {disk[k] : k \in DOMAIN disk}

\* C1: over non-simulate post() runs on one store with no rollback between
\* them, runs that abort or are terminated at any point included, no job is the
\* subject of more than one successful create-post call.
C1_AtMostOnce == \A k \in JobIndices : creates[k] <= 1

\* C2: once a non-simulate post() has run to completion, a later non-simulate
\* post() with no rollback in between issues no upload and no create-post call.
C2_SecondRunIsSilent == rerun => calls \cap {"upload", "create"} = {}

\* C2 witness: the second run has gone through a queue of two jobs
C2_Witness ==
    /\ rerun
    /\ pc = "post"
    /\ Len(queue) >= 2
    /\ i > Len(queue)
    /\ \A k \in DOMAIN queue : queue[k].state = PROCESSED /\ queue[k].cid # None

\* C3: every job, in memory and in the store, that is not PROCESSED has no cid
\* and no uri.
C3_IdsOnlyWhenProcessed ==
    \A job \in AllJobs : job.state # PROCESSED => job.cid = None /\ job.uri = None

\* C4: when rollback() has returned, every job that was PROCESSED is READY with
\* cid and uri cleared, in memory and in its record; the jobs that were READY
\* are as they were, and no delete was issued when all of them were READY.
C4_RollbackRewinds ==
    lastOp = "rollback" =>
        /\ \A k \in DOMAIN rbSnap :
              IF rbSnap[k].state = PROCESSED
              THEN /\ queue[k].state = READY
                   /\ queue[k].cid = None
                   /\ queue[k].uri = None
                   /\ disk[queue[k].job_index] = queue[k]
              ELSE queue[k] = rbSnap[k]
        /\ (\A k \in DOMAIN rbSnap : rbSnap[k].state = READY) => "delete" \notin calls

\* C5: an import never changes a record the store already holds.
C5_ImportKeepsRecords ==
    [][proc = "parser" =>
          \A k \in DOMAIN disk : k \in DOMAIN disk' /\ disk'[k] = disk[k]]_vars

C8_DenseIndices == \A k \in DOMAIN queue : queue[k].job_index = k - 1

\* C15: while a simulate engine runs post() or rollback(), no remote call is
\* issued and no job changes, in memory or in the store.
C15_SimulateIsInert ==
    [][(simulate /\ simulate' /\ (pc # "idle" \/ pc' # "idle")) =>
          /\ calls' = {}
          /\ queue' = queue
          /\ disk' = disk]_vars

\* C16: in a post() run with no index, the delay precedes every attempted job
\* but the first one attempted in that run, wherever in the queue that one is.
C16_DelayBetweenAttempts == attempt.n >= 1 => (attempt.slept <=> attempt.n > 1)

\* C17: a non-simulate post(index = a) makes a posting attempt for every job
\* whose archive_index is a, PROCESSED or not, and passes over every other job.
C17_PickRepostsAnyState ==
    [][(AtJob /\ pick # None /\ ~simulate /\ proc' = "poster") =>
          IF queue[i].archive_index = pick
          THEN ~(pc' = "post" /\ i' = i + 1)
          ELSE pc' = "post" /\ i' = i + 1 /\ calls' = calls /\ queue' = queue]_vars

\* C18: when the attempt of job j raises in non-simulate mode, the exception
\* leaves post(): job j is as it was, in memory and in the store, no create-post
\* went out unless it is the call that raised, and no later job is attempted.
C18_FailedAttemptLeavesJob ==
    [][(RealAttempt /\ pc' = "idle") =>
          /\ queue' = queue
          /\ disk' = disk
          /\ queue'[i].state # FAILED
          /\ i' = 0
          /\ lastCreate' \in {lastCreate, CreateCall(queue, queue[i])}]_vars

\* C18 witness: the driving loop posted job 0 and the attempt of job 1 raised;
\* job 1 is READY without identifiers, and so is its record
C18_Witness ==
    /\ pc = "idle"
    /\ ~simulate
    /\ "login" \in calls
    /\ attempt.n = 2
    /\ Len(queue) = 2
    /\ queue[1].state = PROCESSED
    /\ queue[2].state = READY
    /\ queue[2].cid = None
    /\ disk[1] = queue[2]

\* C19: whenever a non-simulate post() is at a job, every job before it that is
\* PROCESSED has a persisted record that is PROCESSED with the cid and uri the
\* job holds in memory.
C19_DurableBeforeNext ==
    (pc = "post" /\ ~simulate) =>
        \A k \in DOMAIN queue :
            (k < i /\ queue[k].state = PROCESSED) =>
                /\ queue[k].job_index \in DOMAIN disk
                /\ disk[queue[k].job_index].state = PROCESSED
                /\ disk[queue[k].job_index].cid = queue[k].cid
                /\ disk[queue[k].job_index].uri = queue[k].uri

\* the job at position pos comes before the running loop's position, is not
\* PROCESSED, and is one the loop attempts (archive index a in single-index
\* mode): a non-simulate run over the same queue posts it before it gets here
PostedOnTheWay(q, pos, a) ==
    /\ pos < i
    /\ q[pos].state # PROCESSED
    /\ a = None \/ q[pos].archive_index = a

\* the reference to the job at 0-based index r cannot be built in a
\* non-simulate run that has come this far
RefWouldRaise(q, r, a) ==
    \/ LookupRaises(q, r)
    \/ StrongRefRaises(q[r + 1]) /\ ~PostedOnTheWay(q, r + 1, a)

\* a non-simulate post() over the same queue fails on the job before its
\* create-post call: no media, or a reply whose root or parent has no cid/uri
RealWouldFail(q, job, a) ==
    /\ job.state # PROCESSED
    /\ \/ job.embed = <<>>
       \/ /\ IsReply(job)
          /\ RefWouldRaise(q, job.root_index, a) \/ RefWouldRaise(q, job.parent_index, a)

\* C22: a simulate post() fails on a job exactly when a non-simulate post()
\* over the same queue would fail on it before its create-post call.
C22_DryRunSurfacesErrors ==
    [][(Attempted /\ simulate /\ proc' = "poster") =>
          (RealWouldFail(queue, queue[i], pick) <=> pc' = "idle")]_vars

(* ------------- the partitioner and queue_post on their own ------------- *)
BuildInit ==
    /\ MainInit
    /\ TextIdle
    /\ StoreIdle
    /\ ImportIdle
    /\ b_pc = "input"
    /\ b_media \in MediaLists
    /\ b_config \in Configs
    /\ b_prior \in 0..MaxPrior
    /\ b_partitions = <<>>
    /\ b_queue = PriorQueue(b_prior, b_config)

\* media_partitions = self._partition_media(post.media, self.config.media_strategy)
BuildPartition ==
    /\ b_pc = "input"
    /\ b_partitions' = _partition_media(b_media, b_config.media_strategy, b_config)
    /\ b_pc' = "partitioned"
    /\ UNCHANGED <<b_media, b_config, b_prior, b_queue, mainVars, storeVars, importVars, textVars>>

\* the rest of queue_post(post, archive_index)
BuildQueuePost ==
    /\ b_pc = "partitioned"
    /\ b_queue' = queue_post(b_queue, Post(1, b_media), b_prior, b_config)
    /\ b_pc' = IF QueuePostRaises(Post(1, b_media), b_config) THEN "raised" ELSE "queued"
    /\ UNCHANGED <<b_media, b_config, b_prior, b_partitions, mainVars, storeVars, importVars, textVars>>

BuildNext == BuildPartition \/ BuildQueuePost

SpecBuild == BuildInit /\ [][BuildNext]_vars

\* the concatenation of a list of batches
RECURSIVE Flatten(_)
Flatten(batches) ==
    IF batches = <<>> THEN <<>> ELSE Head(batches) \o Flatten(Tail(batches))

\* the limit the configuration sets for a kind
LimitOf(kind, cfg) ==
    IF kind = "video" THEN cfg.max_videos_per_post ELSE cfg.max_images_per_post

BatchOk(batch, cfg) ==
    /\ Len(batch) >= 1
    /\ \A a, b \in DOMAIN batch : KindOf(batch[a]) = KindOf(batch[b])
    /\ Len(batch) <= LimitOf(KindOf(batch[1]), cfg)

Partitioned == b_pc \in {"partitioned", "queued", "raised"}

\* C9: whatever the media list, the strategy and the limits (each at least 1),
\* every batch _partition_media returns is non-empty, of one kind and within that
\* kind's limit, and every job queue_post builds from them has such an embed.
C9_BatchesWellFormed ==
    /\ Partitioned =>
          \A k \in DOMAIN b_partitions : BatchOk(b_partitions[k], b_config)
    /\ b_pc = "queued" =>
          \A k \in (b_prior + 1)..Len(b_queue) : BatchOk(b_queue[k].embed, b_config)

\* C9 witness: a list split into several batches, one of them full at a limit of
\* two, and the jobs built from them
C9_Witness ==
    /\ b_pc = "queued"
    /\ Len(b_partitions) >= 2
    /\ \E k \in DOMAIN b_partitions :
          /\ Len(b_partitions[k]) = 2
          /\ LimitOf(KindOf(b_partitions[k][1]), b_config) = 2
    /\ \E a, b \in DOMAIN b_media : KindOf(b_media[a]) # KindOf(b_media[b])

\* C10: the batches concatenated are the input list itself under "ordered", and
\* the input's images followed by its videos (each in input order) under
\* "videolast"; a non-empty input gives at least one batch.
C10_ConcatenationIsInput ==
    Partitioned =>
        /\ b_config.media_strategy = ORDERED => Flatten(b_partitions) = b_media
        /\ b_config.media_strategy = VIDEOLAST =>
              Flatten(b_partitions) =
                  SelectSeq(b_media, IsImageEntry) \o SelectSeq(b_media, IsVideoEntry)
        /\ b_media # <<>> => b_partitions # <<>>

\* C10 witness: videolast moved a video behind an image, and a batch was closed
\* because it was full
C10_Witness ==
    /\ Partitioned
    /\ b_config.media_strategy = VIDEOLAST
    /\ Len(b_media) >= 3
    /\ IsMp4(b_media[1])
    /\ ~IsMp4(b_media[Len(b_media)])
    /\ Len(b_partitions) >= 3

\* C7: queue_post on a post of N batches appends N jobs with consecutive job
\* indices; the first has no root and no parent, each later one has the first as
\* root and the job just before it as parent; so root and parent are both null
\* or both set, and below the job's own index.
C7_ThreadIsChain ==
    b_pc = "queued" =>
        /\ Len(b_queue) = b_prior + Len(b_partitions)
        /\ \A t \in 1..Len(b_partitions) :
              LET job == b_queue[b_prior + t]
              IN  /\ job.job_index = b_prior + t - 1
                  /\ job.embed = b_partitions[t]
                  /\ t = 1 => job.root_index = None /\ job.parent_index = None
                  /\ t > 1 => /\ job.root_index = b_queue[b_prior + 1].job_index
                              /\ job.parent_index = b_queue[b_prior + t - 1].job_index
                  /\ (job.root_index = None) = (job.parent_index = None)
                  /\ job.root_index < job.job_index
                  /\ job.parent_index < job.job_index

\* C7 witness: a post of at least three batches queued behind earlier jobs
C7_Witness ==
    /\ b_pc = "queued"
    /\ b_prior >= 1
    /\ Len(b_partitions) >= 3

\* the media list is of one kind throughout
OneKind(media) == \A a, b \in DOMAIN media : KindOf(media[a]) = KindOf(media[b])

\* C11: a list of exactly L items of one kind (L that kind's limit) comes back as
\* one batch of L items; a list of L + 1 such items comes back as two batches,
\* the first L items and then the last one.
C11_MaximalAtBoundary ==
    (Partitioned /\ b_media # <<>> /\ OneKind(b_media)) =>
        LET L == LimitOf(KindOf(b_media[1]), b_config)
        IN  /\ Len(b_media) = L => b_partitions = <<b_media>>
            /\ Len(b_media) = L + 1 =>
                  b_partitions = <<SubSeq(b_media, 1, L), <<b_media[L + 1]>> >>

\* C11 witness: three videos under a limit of two videos, and the two batches
C11_Witness ==
    /\ Partitioned
    /\ Len(b_media) = 3
    /\ \A k \in DOMAIN b_media : IsMp4(b_media[k])
    /\ b_config.max_videos_per_post = 2
    /\ Len(b_partitions) = 2
    /\ Len(b_partitions[1]) = 2

(* ---------------------- MigrationQueue on its own ---------------------- *)
\* the jobs that may be appended with job_index k: one image or one video,
\* READY or PROCESSED with its identifiers, a thread start or a reply to job 0
StoreJobs(k) ==
    {[NewJob(k, k, <<Media(1, mp4)>>) EXCEPT
          !.state = st,
          !.cid = IF st = PROCESSED THEN k + 1 ELSE None,
          !.uri = IF st = PROCESSED THEN k + 1 ELSE None,
          !.root_index = r,
          !.parent_index = r] :
        mp4 \in BOOLEAN, st \in {READY, PROCESSED},
        r \in {None} \cup (IF k > 0 THEN {0} ELSE {})}

\* MigrationQueue(path) on a directory with no job file
StoreInit ==
    /\ MainInit
    /\ TextIdle
    /\ BuildIdle
    /\ ImportIdle
    /\ s_pc = "open"
    /\ s_queue = <<>>
    /\ s_disk = EmptyStore
    /\ s_appended = <<>>

\* append(job): the job joins self.queue and its file is written
StoreAppend(job) ==
    /\ s_pc = "open"
    /\ Len(s_appended) < MaxJobs
    /\ s_queue' = Append(s_queue, job)
    /\ s_disk' = save(s_disk, job)
    /\ s_appended' = Append(s_appended, job)
    /\ UNCHANGED <<s_pc, mainVars, buildVars, importVars, textVars>>

\* another MigrationQueue(path) on the same directory
StoreReopen ==
    /\ s_pc = "open"
    /\ s_queue' = <<>>
    /\ s_pc' = "reopened"
    /\ UNCHANGED <<s_disk, s_appended, mainVars, buildVars, importVars, textVars>>

\* load()
StoreLoad(order) ==
    /\ s_pc \in {"open", "reopened", "loaded"}
    /\ s_queue' = load(s_queue, s_disk, order)
    /\ s_pc' = IF s_pc = "reopened" THEN "loaded" ELSE "reloaded"
    /\ UNCHANGED <<s_disk, s_appended, mainVars, buildVars, importVars, textVars>>

StoreNext ==
    \/ \E job \in StoreJobs(Len(s_appended)) : StoreAppend(job)
    \/ StoreReopen
    \/ \E order \in GlobOrders(s_disk) : StoreLoad(order)

SpecStore == StoreInit /\ [][StoreNext]_vars

\* C12: jobs with indices 0..n-1 appended to a store that was empty, then
\* load(): the in-memory queue is the appended list, job for job, field for
\* field.
C12_RoundTrip == s_pc \in {"loaded", "reloaded"} => s_queue = s_appended

(* ------------------- extract_posts_to_queue on its own ------------------ *)
\* a day, as a creation_timestamp or as a min_date / max_date
Days == 1..MaxDay

\* the k-th post of an archive: dated or not, with no media or with one image
\* (named k) that is dated or not
PostsAt(k) ==
    {Post(ts, m) :
        ts \in {None} \cup Days,
        m \in {<<>>} \cup
              {<<[Media(k, FALSE) EXCEPT !.creation_timestamp = cts]>> :
                  cts \in {None, 1}}}

ArchivesOfLen(n) == {a \in [1..n -> UNION {PostsAt(k) : k \in 1..n}] :
                        \A k \in 1..n : a[k] \in PostsAt(k)}

\* the configurations with or without a date window
WindowConfigs ==
    {[IdleConfig EXCEPT !.min_date = lo, !.max_date = hi] :
        lo \in {None} \cup Days, hi \in {None} \cup Days}

ImportInit ==
    /\ MainInit
    /\ TextIdle
    /\ BuildIdle
    /\ StoreIdle
    /\ x_pc = "input"
    /\ x_archive \in UNION {ArchivesOfLen(n) : n \in 0..MaxPosts}
    /\ x_config \in WindowConfigs
    /\ x_posts = <<>>
    /\ x_queue = <<>>

\* the first loop (timestamp repair, title and date) and the sort
ImportNormalize ==
    /\ x_pc = "input"
    /\ IF NoDateRaises(x_archive)
       THEN /\ x_pc' = "raised"
            /\ x_posts' = x_posts
       ELSE /\ x_pc' = "sorted"
            /\ x_posts' = SortedByTimestamp(Resolved(x_archive))
    /\ UNCHANGED <<x_archive, x_config, x_queue, mainVars, buildVars, storeVars, textVars>>

\* the second loop: the date window, the no-media skip, queue_post
ImportQueue ==
    /\ x_pc = "sorted"
    /\ LET r == ExtractLoop(x_queue, x_posts, 0, x_config)
       IN  /\ x_queue' = r.queue
           /\ x_pc' = IF r.raised THEN "raised" ELSE "done"
    /\ UNCHANGED <<x_archive, x_config, x_posts, mainVars, buildVars, storeVars, textVars>>

ImportNext == ImportNormalize \/ ImportQueue

SpecImport == ImportInit /\ [][ImportNext]_vars

\* the import is over, normally or by an exception
ImportOver == x_pc \in {"done", "raised"}

\* the embeds of the queued jobs, in queue order
Embeds(q) == [k \in DOMAIN q |-> q[k].embed]

\* the media of the posts, in list order
MediaOf(posts) == [k \in DOMAIN posts |-> posts[k].media]

\* the posts with media dated within [lo, hi], in ascending timestamp order
InWindow(archive, lo, hi) ==
    LET Usable(post) ==
            /\ post.media # <<>>
            /\ post.creation_timestamp >= lo
            /\ post.creation_timestamp <= hi
    IN  SelectSeq(SortedByTimestamp(Resolved(archive)), Usable)

\* C13: with min_date and max_date configured, the import queues exactly the
\* posts with media whose timestamp lies in [min_date, max_date], in ascending
\* timestamp order.
C13_DateWindow ==
    (ImportOver /\ x_config.min_date # None /\ x_config.max_date # None
        /\ ~NoDateRaises(x_archive)) =>
        /\ x_pc = "done"
        /\ Embeds(x_queue) =
              MediaOf(InWindow(x_archive, x_config.min_date, x_config.max_date))

(* ------------------------ the text of a job ---------------------------- *)
\* the characters a title is made of, all different
Letters == <<"a", "b", "c", "d", "e", "f", "g", "h", "i", "j">>

\* str(k) for a one-digit k
Digit(k) == <<"1", "2", "3", "4", "5", "6", "7", "8", "9">>[k]

\* a title of n characters
Title(n) == SubSeq(Letters, 1, n)

\* a suffix of n characters
Suffix(n) == [k \in 1..n |-> "."]

\* f"[{index + 1}/{len(media_partitions)}] {post.title}", or post.title alone
\* when the post has one partition
PostText(title, index, parts) ==
    IF parts > 1
    THEN <<"[", Digit(index + 1), "/", Digit(parts), "]", " ">> \o title
    ELSE title

\* text[:n] as Python slices: the first n characters, or all but the last -n
\* when n is negative
PySlice(text, n) ==
    IF n >= 0
    THEN SubSeq(text, 1, IF n < Len(text) THEN n ELSE Len(text))
    ELSE SubSeq(text, 1, IF Len(text) + n > 0 THEN Len(text) + n ELSE 0)

\* mutant: the text is cut at the limit, the suffix comes on top
CutPointAtLimit(limit, suffix) == limit

\* self.config.post_text_limit - len(self.config.post_text_truncate_suffix)
CutPoint(limit, suffix) == limit - Len(suffix)

\* the truncation of queue_post
Truncated(text, limit, suffix) ==
    IF Len(text) > limit
    THEN PySlice(text, CutPoint(limit, suffix)) \o suffix
    ELSE text

TextInit ==
    /\ MainInit
    /\ BuildIdle
    /\ StoreIdle
    /\ ImportIdle
    /\ t_pc = "input"
    /\ t_title \in {Title(n) : n \in 0..MaxTitle}
    /\ t_parts \in 1..MaxLimit
    /\ t_index \in 0..(t_parts - 1)
    /\ t_limit \in 0..MaxTextLimit
    /\ t_suffix \in {Suffix(n) : n \in 0..MaxSuffix}
    /\ t_full = <<>>
    /\ t_text = <<>>

\* _post_text is put together
TextBuild ==
    /\ t_pc = "input"
    /\ t_full' = PostText(t_title, t_index, t_parts)
    /\ t_pc' = "built"
    /\ UNCHANGED <<t_title, t_index, t_parts, t_limit, t_suffix, t_text,
                   mainVars, buildVars, storeVars, importVars>>

\* _post_text is truncated if it exceeds the limit, and goes into the job
TextTruncate ==
    /\ t_pc = "built"
    /\ t_text' = Truncated(t_full, t_limit, t_suffix)
    /\ t_pc' = "stored"
    /\ UNCHANGED <<t_title, t_index, t_parts, t_limit, t_suffix, t_full,
                   mainVars, buildVars, storeVars, importVars>>

TextNext == TextBuild \/ TextTruncate

SpecText == TextInit /\ [][TextNext]_vars

\* the stored text is the untruncated one cut to length L and closed by the suffix
CutToLimit ==
    /\ Len(t_text) = t_limit
    /\ SubSeq(t_text, Len(t_text) - Len(t_suffix) + 1, Len(t_text)) = t_suffix
    /\ SubSeq(t_text, 1, t_limit - Len(t_suffix)) =
           SubSeq(t_full, 1, t_limit - Len(t_suffix))

\* C14 as stated: a text longer than the limit L is stored with length exactly
\* L, ending with the suffix, its first L - len(suffix) characters unchanged; a
\* text of length at most L is stored as it is.
C14_Truncation ==
    t_pc = "stored" =>
        IF Len(t_full) > t_limit THEN CutToLimit ELSE t_text = t_full

\* C14 amended: the same, for a limit that is at least as long as the suffix.
C14_TruncationWithinLimit ==
    (t_pc = "stored" /\ t_limit >= Len(t_suffix)) =>
        IF Len(t_full) > t_limit THEN CutToLimit ELSE t_text = t_full

\* C14 witness: a prefixed text longer than the limit, cut and closed by a suffix
\* of three characters
C14_Witness ==
    /\ t_pc = "stored"
    /\ t_parts > 1
    /\ Len(t_suffix) = 3
    /\ t_limit > 3
    /\ Len(t_full) > t_limit
    /\ Len(t_text) = t_limit
    /\ t_text[1] = "["

\* the post has a timestamp of its own or one its first media item lends it
Dated(post) == ResolvedTimestamp(post) # None

\* the dated posts with media, in ascending timestamp order
Usable(archive) ==
    LET HasMedia(post) == post.media # <<>>
    IN  SelectSeq(SortedByTimestamp(Resolved(SelectSeq(archive, Dated))), HasMedia)

\* C20: a post with no timestamp of its own and none on its first media item is
\* left out; the import goes on and queues every other post that has media, in
\* ascending timestamp order.
C20_UndatedPostIsSkipped ==
    (ImportOver /\ x_config.min_date = None /\ x_config.max_date = None) =>
        /\ x_pc = "done"
        /\ Embeds(x_queue) = MediaOf(Usable(x_archive))

\* the records of the store, one entry per record, sorted by job_index
StoreRecords(store) ==
    LET order == CHOOSE o \in GlobOrders(store) : TRUE
    IN  SortedByJobIndex([k \in 1..Len(order) |-> store[order[k]]])

\* C21: after load() the in-memory queue is the persisted records sorted by
\* job_index, one entry per record, whatever the queue held before: after
\* appends, or after an earlier load().
C21_LoadReplaces == s_pc \in {"loaded", "reloaded"} => s_queue = StoreRecords(s_disk)

\* the media of the post at 0-based position a of the archive as supplied
SourceMedia(archive, a) ==
    IF a + 1 \in DOMAIN archive THEN archive[a + 1].media ELSE <<>>

\* C23: every job's archive_index is the position of its source post in the
\* archive as supplied, before the sort by timestamp: the job carries the media
\* of the post at that position.
C23_ArchiveIndexIsSourcePosition ==
    x_pc = "done" =>
        \A k \in DOMAIN x_queue :
            x_queue[k].embed = SourceMedia(x_archive, x_queue[k].archive_index)

====
